---- MODULE Spec2Model ----
(***************************************************************************)
(* Model of the mm-query client (package mmmegamarket): the shared         *)
(* configuration (config.py), the authenticator MMAuthClient (auth.py),    *)
(* the query executor and the catalog operations of MMAPIClient            *)
(* (api_client.py), the price model (models.py), the store directory       *)
(* StoreManager (stores.py) and the command handlers that use them         *)
(* (server.py).                                                            *)
(*                                                                         *)
(* Python values: None is NoneVal; a str is a TLA+ string; truthiness      *)
(* (`if x`, `x or y`, `not x`) is Truthy/PyOr, which treat both None and   *)
(* the empty string as false, whereas `x is not None` is x # NoneVal.      *)
(*                                                                         *)
(* Time: the code only ever uses the difference                            *)
(* time.time() - self._last_request_time, so the model keeps that          *)
(* difference (elapsed) instead of the two absolute values, in whole       *)
(* seconds, saturated at Horizon (a value larger than every                *)
(* rate_limit_delay it is compared with).                                  *)
(***************************************************************************)
EXTENDS Integers, Sequences, FiniteSets, TLC

\* ------------------------------------------------------------------ bounds
MaxRetry == 3        \* retry_attempts ranges over 0..MaxRetry
MaxDelay == 2        \* rate_limit_delay ranges over 1..MaxDelay (seconds)
MaxDur == 1          \* a request takes 0..MaxDur seconds

\* config.py defaults
DefaultRetryAttempts == 3
DefaultRateLimitDelay == 1

Horizon == MaxDelay + 1

\* ------------------------------------------------------------ python values
NoneVal == "<None>"

\* In place of a returned value: the call was left by an exception.
Raised == "<raise>"

Truthy(x) == x # NoneVal /\ x # ""

PyOr(a, b) == IF Truthy(a) THEN a ELSE b

Usernames == {NoneVal, "user"}
Passwords == {NoneVal, "", "pw"}
\* what the environment configures, and what the backend issues at a login
CfgPasswords == {NoneVal, "pw"}
CfgTokens == {NoneVal, "", "tokA"}
IssuedTokens == {NoneVal, "", "tokB"}

Sat(t) == IF t > Horizon THEN Horizon ELSE t

VARIABLES
    retry_attempts,     \* config.retry_attempts
    rate_limit_delay,   \* config.rate_limit_delay
    cfg_username,       \* config.b2b_auth.username
    cfg_password,       \* config.b2b_auth.password
    cfg_token,          \* config.b2b_auth.customer_token
    b2b_token,          \* MMAuthClient.b2b_token
    elapsed,            \* time.time() - MMAPIClient._last_request_time
    pc,                 \* position of _execute_query: "idle", "loop", "done"
    platform,           \* argument of the running _execute_query
    attempt,            \* loop variable of `for attempt in range(...)`
    headers,            \* Authorization bearer value of `headers`, or NoneVal
    result,             \* returned value: NoneVal, or the number of the GET
                        \* whose response is returned; Raised if the call raised
    gets,               \* history: physical GETs sent by the current call
    fails,              \* history: GETs of the current call that failed in transport
    authCalls,          \* history: authenticate_b2b invocations by the current call
    lastResp,           \* history: kind of the last response handled: "none", "ok", "fail",
                        \* "errors_auth", "errors_other", or one of MalformedBodies
    lastReauth,         \* history: re-authentication while handling it: "no", "ok", "failed", "raised"
    reauthGet,          \* history: number of the GET answered by the last successful re-authentication
    sincePrevGet,       \* history: time since the previous physical GET was sent
    spaced,             \* history: the last GET was sent at least rate_limit_delay after the previous one
    marks,              \* history: updates of the watermark (_rate_limit calls) by the current call
    slept,              \* history: the backoff time.sleep made after the last response handled (0: none)
    last,               \* history: the last authenticator operation, the credentials
                        \* configured when it was called, and its outcome
    current_store,      \* StoreManager.current_store (<<>> is None, <<s>> a Store)
    b2c_store_code,     \* config.b2c.store_code
    b2b_store_code,     \* config.b2b.store_code
    dir_last,           \* history: the last store directory operation and its outcome
    cat                 \* history: the last catalog operation, its inputs and its result

cfgVars == <<retry_attempts, rate_limit_delay, cfg_username, cfg_password>>
callVars == <<pc, platform, attempt, headers, result>>
histVars == <<gets, fails, authCalls, lastResp, lastReauth, reauthGet, spaced, marks, slept>>
\* the client of the executor and the authenticator
clientVars == <<retry_attempts, rate_limit_delay, cfg_username, cfg_password, cfg_token,
                b2b_token, elapsed, pc, platform, attempt, headers, result, gets, fails,
                authCalls, lastResp, lastReauth, reauthGet, sincePrevGet, spaced,
                marks, slept, last>>
\* the store directory and the store identifiers of the configuration
dirVars == <<current_store, b2c_store_code, b2b_store_code, dir_last>>
catVars == <<cat>>
vars == <<clientVars, dirVars, catVars>>

\* --------------------------------------------------------------- auth.py
\* MMAuthClient.__init__: the token taken over from the configuration.
InitToken(tok) == IF Truthy(tok) THEN tok ELSE NoneVal

get_b2b_headers(tok) == IF Truthy(tok) THEN tok ELSE NoneVal

get_b2c_headers == NoneVal

is_b2b_authenticated(tok) == tok # NoneVal

\* Responses of the backend to the generateCustomerToken mutation: a transport
\* failure, an "errors" response, a response lacking data or
\* generateCustomerToken ("missing"), a token (a string or null), and the
\* responses without "errors" on which token_data["token"] or the test
\* `"generateCustomerToken" in data["data"]` raises: a null data
\* ("null_data", TypeError), a null generateCustomerToken ("null_object",
\* TypeError) and one without token ("no_token", KeyError).
RaisingLogins == {"null_data", "null_object", "no_token"}

LoginResponses ==
    {[kind |-> k, token |-> NoneVal] : k \in {"transport", "errors", "missing"} \cup RaisingLogins}
    \cup {[kind |-> "token", token |-> t] : t \in IssuedTokens}

\* Mutant: the check for missing credentials is left out.
authenticate_b2b_NoCredentialCheck(username, password, resp) ==
    IF resp.kind = "token"
    THEN [ret |-> "True", posted |-> TRUE, token |-> resp.token, cfg |-> resp.token]
    ELSE IF resp.kind \in RaisingLogins
    THEN [ret |-> "raise", posted |-> TRUE, token |-> b2b_token, cfg |-> cfg_token]
    ELSE [ret |-> "False", posted |-> TRUE, token |-> b2b_token, cfg |-> cfg_token]

\* authenticate_b2b(username, password) against a backend answering resp:
\* the value returned ("raise": the exception that is not a
\* RequestException leaves the method), whether a request was posted, and
\* both token copies.
authenticate_b2b(username, password, resp) ==
    LET email == PyOr(username, cfg_username)
        pwd == PyOr(password, cfg_password)
    IN  IF ~Truthy(email) \/ ~Truthy(pwd)
        THEN [ret |-> "False", posted |-> FALSE, token |-> b2b_token, cfg |-> cfg_token]
        ELSE IF resp.kind = "token"
        THEN [ret |-> "True", posted |-> TRUE, token |-> resp.token, cfg |-> resp.token]
        ELSE IF resp.kind \in RaisingLogins
        THEN [ret |-> "raise", posted |-> TRUE, token |-> b2b_token, cfg |-> cfg_token]
        ELSE [ret |-> "False", posted |-> TRUE, token |-> b2b_token, cfg |-> cfg_token]

\* The endpoint a request goes to, named by its backend.
B2cEndpoint == "b2c"
B2bEndpoint == "b2b"

\* requests.post(self.config.b2b.endpoint, ...): where an authenticator
\* operation sent its request, if it sent one.
PostedTo(posted) == IF posted THEN B2bEndpoint ELSE "none"

NoOp == [op |-> "none", ret |-> "False", posted |-> FALSE, to |-> "none", resp |-> "none",
         user |-> NoneVal, pwd |-> NoneVal, pre_token |-> NoneVal, pre_cfg |-> NoneVal,
         cfg_user |-> NoneVal, cfg_pwd |-> NoneVal]

\* The response an operation received, if it sent a request.
Seen(posted, kind) == IF posted THEN kind ELSE "none"

InitClient ==
    /\ retry_attempts \in 0..MaxRetry
    /\ rate_limit_delay \in 1..MaxDelay
    /\ cfg_username \in Usernames
    /\ cfg_password \in CfgPasswords
    /\ cfg_token \in CfgTokens
    /\ b2b_token = InitToken(cfg_token)
    /\ elapsed = Horizon
    /\ pc = "idle"
    /\ platform = "b2c"
    /\ attempt = 0
    /\ headers = NoneVal
    /\ result = NoneVal
    /\ gets = 0
    /\ fails = 0
    /\ authCalls = 0
    /\ lastResp = "none"
    /\ lastReauth = "no"
    /\ reauthGet = 0
    /\ sincePrevGet = Horizon
    /\ spaced = TRUE
    /\ marks = 0
    /\ slept = 0
    /\ last = NoOp

\* ---------------------------------------------------------------- stores.py
\* A str that the code takes apart is the sequence of its characters.
B2cPrefix == <<"b", "2", "c", "_">>
MmPrefix == <<"m", "m", "_">>
ViSuffix == <<"_", "v", "i">>
Space == <<" ">>

StartsWith(s, pat) == Len(s) >= Len(pat) /\ SubSeq(s, 1, Len(pat)) = pat

\* str.replace(pat, ""): every occurrence of pat, from the left, is removed.
RECURSIVE Remove(_, _)
Remove(s, pat) ==
    IF s = <<>> THEN <<>>
    ELSE IF StartsWith(s, pat) THEN Remove(SubSeq(s, Len(pat) + 1, Len(s)), pat)
    ELSE <<Head(s)>> \o Remove(Tail(s), pat)

\* The numeric code get_store, get_b2c_store_code and get_b2b_store_code extract.
NumericCode(code) == Remove(Remove(Remove(code, B2cPrefix), MmPrefix), ViSuffix)

Code10010 == <<"1", "0", "0", "1", "0">>
Code10015 == <<"1", "0", "0", "1", "5">>
Code10020 == <<"1", "0", "0", "2", "0">>
Code10035 == <<"1", "0", "0", "3", "5">>
Code99999 == <<"9", "9", "9", "9", "9">>

\* StoreManager.KNOWN_STORES
KnownCodes == {Code10010, Code10015, Code10020, Code10035}

KnownStore(numeric) ==
    [code |-> numeric,
     name |-> CASE numeric = Code10010 -> "MM Mega Market An Phu"
                [] numeric = Code10015 -> "MM Mega Market Binh Phu"
                [] numeric = Code10020 -> "MM Mega Market Binh Tan"
                [] OTHER -> "MM Mega Market Thu Duc",
     region |-> "South"]

\* Optional[Store]: <<>> is None, <<s>> is the store s.
NoStore == <<>>

\* KNOWN_STORES.get(numeric)
Lookup(numeric) == IF numeric \in KnownCodes THEN <<KnownStore(numeric)>> ELSE NoStore

\* Mutant: an unknown code falls back to the default store.
get_store_Default(code) ==
    IF NumericCode(code) \in KnownCodes THEN Lookup(NumericCode(code))
    ELSE Lookup(Code10010)

\* StoreManager.get_store
get_store(code) == Lookup(NumericCode(code))

\* Store.get_b2c_store_code / Store.get_b2b_store_code
get_b2c_store_code(store) == B2cPrefix \o NumericCode(store.code) \o ViSuffix

get_b2b_store_code(store) == MmPrefix \o NumericCode(store.code) \o ViSuffix

\* The store codes the operations are called with: a numeric code, written
\* with or without a backend prefix, the language suffix and surrounding spaces.
Spell(pad, prefix, numeric, suffix) == pad \o prefix \o numeric \o suffix \o pad

StoreInputs ==
    {[code |-> Spell(pad, prefix, numeric, suffix), numeric |-> numeric] :
        pad \in {<<>>, Space}, prefix \in {<<>>, B2cPrefix, MmPrefix},
        numeric \in {Code10010, Code10015, Code99999}, suffix \in {<<>>, ViSuffix}}

\* StoreManager.__init__ and the default store codes of MMConfig
InitStores ==
    /\ current_store = Lookup(Code10010)
    /\ b2c_store_code = B2cPrefix \o Code10010 \o ViSuffix
    /\ b2b_store_code = MmPrefix \o Code10010 \o ViSuffix
    /\ dir_last = [op |-> "none"]

\* What a directory operation leaves behind: its argument (as written, and the
\* numeric code meant), what it found and returned, and the state before it.
DirRecord(op, inp, found, ok) ==
    [op |-> op, code |-> inp.code, numeric |-> inp.numeric, found |-> found, ok |-> ok,
     pre_current |-> current_store, pre_b2c |-> b2c_store_code, pre_b2b |-> b2b_store_code]

GetStore(inp) ==
    /\ dir_last' = DirRecord("get_store", inp, get_store(inp.code), TRUE)
    /\ UNCHANGED <<clientVars, catVars, current_store, b2c_store_code, b2b_store_code>>

SetCurrentStore(inp) ==
    LET store == get_store(inp.code)
    IN  /\ current_store' = IF store # NoStore THEN store ELSE current_store
        /\ dir_last' = DirRecord("set_current_store", inp, store, store # NoStore)
        /\ UNCHANGED <<clientVars, catVars, b2c_store_code, b2b_store_code>>

\* update_config_store(config, store_code): the value returned and both
\* store codes of the configuration.
update_config_store(code) ==
    LET store == get_store(code)
    IN  IF store = NoStore
        THEN [ok |-> FALSE, b2c |-> b2c_store_code, b2b |-> b2b_store_code]
        ELSE [ok |-> TRUE, b2c |-> get_b2c_store_code(store[1]),
              b2b |-> get_b2b_store_code(store[1])]

UpdateConfigStore(inp) ==
    LET r == update_config_store(inp.code)
    IN  /\ b2c_store_code' = r.b2c
        /\ b2b_store_code' = r.b2b
        /\ dir_last' = DirRecord("update_config_store", inp, get_store(inp.code), r.ok)
        /\ UNCHANGED <<clientVars, catVars, current_store>>

\* server.handle_set_store: the set_store command; ok is the success message.
HandleSetStore(inp) ==
    LET r == update_config_store(inp.code)
    IN  /\ b2c_store_code' = r.b2c
        /\ b2b_store_code' = r.b2b
        /\ dir_last' = DirRecord("set_store", inp, get_store(inp.code), r.ok)
        /\ UNCHANGED <<clientVars, catVars, current_store>>

\* server.handle_get_current_store: the store and store codes it reports.
HandleGetCurrentStore ==
    /\ dir_last' = [op |-> "get_current_store", found |-> current_store,
                    b2c |-> b2c_store_code, b2b |-> b2b_store_code]
    /\ UNCHANGED <<clientVars, catVars, current_store, b2c_store_code, b2b_store_code>>

NextStore ==
    \/ \E inp \in StoreInputs : GetStore(inp)
    \/ \E inp \in StoreInputs : SetCurrentStore(inp)
    \/ \E inp \in StoreInputs : UpdateConfigStore(inp)
    \/ \E inp \in StoreInputs : HandleSetStore(inp)
    \/ HandleGetCurrentStore

\* -------------------------------------------------------------- the catalog
InitCatalog == cat = [op |-> "none"]

\* ---------------------------------------------------------------- models.py
MaxPrice == 4        \* a PriceRange's prices range over -1..MaxPrice

\* Prices are floats in the code; the model takes whole amounts (VND has no
\* minor unit), including a non-positive one.
Prices == (0 - 1)..MaxPrice

\* (amount / base) * 100 for base > 0, kept exactly as the fraction num/den
\* with den > 0 (the code computes the same quotient in floating point).
Pct(amount, base) == [num |-> amount * 100, den |-> base]

\* The literal 0 / 0.0 of the `else` branches.
ZeroPct == [num |-> 0, den |-> 1]

PctEq(p, q) == p.num * q.den = q.num * p.den

PctLess(p, q) == p.num * q.den < q.num * p.den

\* Optional[float]: <<>> is None, <<d>> is the float d.
NoAmount == <<>>

\* PriceRange.__init__(final_price, regular_price, discount_amount = given).
PriceRange(final, regular, given) ==
    [final_price |-> final, regular_price |-> regular,
     discount_amount |-> IF given = NoAmount THEN regular - final ELSE given[1]]

has_discount(pr) == pr.discount_amount > 0

\* Mutant: a regular price of 0 is divided by.
discount_percentage_ZeroDivides(pr) ==
    IF pr.regular_price >= 0 THEN Pct(pr.discount_amount, pr.regular_price) ELSE ZeroPct

discount_percentage(pr) ==
    IF pr.regular_price > 0 THEN Pct(pr.discount_amount, pr.regular_price) ELSE ZeroPct

\* A PriceRange is built and its two properties are read.
BuildPriceRange(final, regular, given) ==
    /\ LET pr == PriceRange(final, regular, given)
       IN  cat' = [op |-> "price_range", final |-> final, regular |-> regular,
                   given |-> given, discount_amount |-> pr.discount_amount,
                   has_discount |-> has_discount(pr),
                   discount_percentage |-> discount_percentage(pr)]
    /\ UNCHANGED <<clientVars, dirVars>>

NextPrice ==
    \E final \in Prices, regular \in Prices, given \in {NoAmount, <<0>>, <<1>>} :
        BuildPriceRange(final, regular, given)

Init == InitClient /\ InitStores /\ InitCatalog

\* ------------------------------------------------------------ api_client.py
\* _rate_limit: the time slept before the watermark is set.
RateLimitWait(e) == IF e < rate_limit_delay THEN rate_limit_delay - e ELSE 0

\* The condition under which an errors response triggers a re-authentication.
IsAuthError(p, mentions) == p = "b2b" /\ mentions

\* Mutant: the re-authenticated attempt is not counted.
AfterReauth_SameAttempt(a) == a

\* `continue` after a successful re-authentication: the for loop moves on.
AfterReauth(a) == a + 1

\* Mutant: the last retry is given up.
HasNextAttempt_OneShort(a) == a < retry_attempts - 2

\* After a transport failure: is there another attempt (with a backoff sleep)?
HasNextAttempt(a) == a < retry_attempts - 1

\* Mutant: every backoff is one second.
Backoff_Constant(a) == 1

\* time.sleep(2 ** attempt)
Backoff(a) == 2 ^ a

\* endpoint = b2c.endpoint if platform == "b2c" else b2b.endpoint
Endpoint(p) == IF p = "b2c" THEN B2cEndpoint ELSE B2bEndpoint

\* Mutant: the business headers are used for every platform.
QueryHeaders_AlwaysB2b(p, tok) == get_b2b_headers(tok)

\* The headers _execute_query builds before its loop, tok being the
\* authenticator's token.
QueryHeaders(p, tok) == IF p = "b2c" THEN get_b2c_headers ELSE get_b2b_headers(tok)

\* Entry of _execute_query(platform = p, ...): _rate_limit(), then the
\* endpoint, headers and params are built and the loop is entered.
ExecuteQuery(p) ==
    /\ pc \in {"idle", "done"}
    /\ LET wait == RateLimitWait(elapsed)
       IN  /\ elapsed' = 0
           /\ sincePrevGet' = Sat(sincePrevGet + wait)
    /\ platform' = p
    /\ headers' = QueryHeaders(p, b2b_token)
    /\ attempt' = 0
    /\ pc' = "loop"
    /\ result' = NoneVal
    /\ gets' = 0
    /\ fails' = 0
    /\ authCalls' = 0
    /\ lastResp' = "none"
    /\ lastReauth' = "no"
    /\ reauthGet' = 0
    /\ spaced' = TRUE
    /\ marks' = 1
    /\ slept' = 0
    /\ UNCHANGED <<cfgVars, dirVars, catVars, cfg_token, b2b_token, last>>

\* requests.get(...) of one loop iteration is sent.
SendGet ==
    /\ pc = "loop"
    /\ attempt < retry_attempts
    /\ gets' = gets + 1
    /\ spaced' = (sincePrevGet >= rate_limit_delay)
    /\ UNCHANGED marks

\* The response is an object without "errors" (or another body in which
\* `"errors" in data` is false): it is returned.
AttemptOk(d) ==
    /\ SendGet
    /\ lastResp' = "ok"
    /\ slept' = 0
    /\ lastReauth' = "no"
    /\ result' = gets + 1
    /\ pc' = "done"
    /\ elapsed' = Sat(elapsed + d)
    /\ sincePrevGet' = Sat(d)
    /\ UNCHANGED <<cfgVars, dirVars, catVars, cfg_token, b2b_token, platform, attempt, headers,
                   fails, authCalls, reauthGet, last>>

\* The response carries a list of "errors" (mentioning authorization or not); on the
\* business backend an authorization error calls authenticate_b2b(), whose
\* request takes d2 and is answered by resp. An exception raised by
\* authenticate_b2b() is not a RequestException: it leaves _execute_query.
AttemptErrors(d, mentions, resp, d2) ==
    /\ SendGet
    /\ lastResp' = IF mentions THEN "errors_auth" ELSE "errors_other"
    /\ slept' = 0
    /\ UNCHANGED <<cfgVars, dirVars, catVars, platform, fails>>
    /\ IF IsAuthError(platform, mentions)
       THEN LET r == authenticate_b2b(NoneVal, NoneVal, resp)
                t == IF r.posted THEN d + d2 ELSE d
            IN  /\ b2b_token' = r.token
                /\ cfg_token' = r.cfg
                /\ authCalls' = authCalls + 1
                /\ last' = [op |-> "login", ret |-> r.ret, posted |-> r.posted,
                            to |-> PostedTo(r.posted),
                            resp |-> Seen(r.posted, resp.kind),
                            user |-> NoneVal, pwd |-> NoneVal,
                            pre_token |-> b2b_token, pre_cfg |-> cfg_token,
                            cfg_user |-> cfg_username, cfg_pwd |-> cfg_password]
                /\ elapsed' = Sat(elapsed + t)
                /\ sincePrevGet' = Sat(t)
                /\ IF r.ret = "True"
                   THEN /\ headers' = get_b2b_headers(r.token)
                        /\ attempt' = AfterReauth(attempt)
                        /\ pc' = "loop"
                        /\ result' = NoneVal
                        /\ lastReauth' = "ok"
                        /\ reauthGet' = gets + 1
                   ELSE /\ pc' = "done"
                        /\ result' = IF r.ret = "raise" THEN Raised ELSE NoneVal
                        /\ lastReauth' = IF r.ret = "raise" THEN "raised" ELSE "failed"
                        /\ UNCHANGED <<headers, attempt, reauthGet>>
       ELSE /\ pc' = "done"
            /\ result' = NoneVal
            /\ lastReauth' = "no"
            /\ elapsed' = Sat(elapsed + d)
            /\ sincePrevGet' = Sat(d)
            /\ UNCHANGED <<cfg_token, b2b_token, headers, attempt, authCalls,
                           reauthGet, last>>

\* Response bodies on which the lines that look for "errors" raise a
\* TypeError: "not_object" is a JSON body that is no object and on which
\* `"errors" in data` or data["errors"] raises (null, a number, a string or a
\* list holding "errors"); "errors_not_list" is an object whose "errors" is
\* not iterable (null, a number).
MalformedBodies == {"not_object", "errors_not_list"}

\* Whether the body makes _execute_query(platform = p) raise: a non-object
\* does; errors that are not iterable do when any(...) runs over them, which
\* `platform == "b2b" and` lets happen on the business backend only.
BodyRaises(p, body) == body = "not_object" \/ p = "b2b"

\* The response is one of the malformed bodies: the TypeError is no
\* RequestException and leaves _execute_query; on the consumer backend
\* errors that are not iterable are errors as any others, None is returned.
\* authenticate_b2b is not reached.
AttemptMalformed(d, body) ==
    /\ SendGet
    /\ lastResp' = body
    /\ lastReauth' = "no"
    /\ slept' = 0
    /\ pc' = "done"
    /\ result' = IF BodyRaises(platform, body) THEN Raised ELSE NoneVal
    /\ elapsed' = Sat(elapsed + d)
    /\ sincePrevGet' = Sat(d)
    /\ UNCHANGED <<cfgVars, dirVars, catVars, cfg_token, b2b_token, platform, attempt, headers,
                   fails, authCalls, reauthGet, last>>

\* requests.get raises a RequestException (connection error, timeout, non-2xx).
AttemptFail(d) ==
    /\ SendGet
    /\ lastResp' = "fail"
    /\ lastReauth' = "no"
    /\ fails' = fails + 1
    /\ result' = NoneVal
    /\ IF HasNextAttempt(attempt)
       THEN /\ slept' = Backoff(attempt)
            /\ elapsed' = Sat(elapsed + d + Backoff(attempt))
            /\ sincePrevGet' = Sat(d + Backoff(attempt))
            /\ attempt' = attempt + 1
            /\ pc' = "loop"
       ELSE /\ slept' = 0
            /\ elapsed' = Sat(elapsed + d)
            /\ sincePrevGet' = Sat(d)
            /\ pc' = "done"
            /\ UNCHANGED attempt
    /\ UNCHANGED <<cfgVars, dirVars, catVars, cfg_token, b2b_token, platform, headers, authCalls,
                   reauthGet, last>>

\* The for loop is exhausted: `return None` after the loop.
LoopExit ==
    /\ pc = "loop"
    /\ attempt >= retry_attempts
    /\ pc' = "done"
    /\ result' = NoneVal
    /\ UNCHANGED <<cfgVars, dirVars, catVars, cfg_token, b2b_token, elapsed, platform, attempt,
                   headers, histVars, sincePrevGet, last>>

\* ------------------------------------------------- authenticator operations
\* Responses of the backend to the customer query of verify_b2b_token.
\* "customer" is {data: {customer: {...}}}, "missing" lacks data or customer;
\* on a null customer ("null_customer", AttributeError of .get) and on a null
\* data ("null_data", TypeError of `in`), both without "errors", the code
\* raises.
VerifyResponses == {"transport", "errors", "customer", "missing", "null_customer", "null_data"}

verify_b2b_token(resp) ==
    IF ~Truthy(b2b_token)
    THEN [ret |-> "False", posted |-> FALSE]
    ELSE IF resp = "customer"
    THEN [ret |-> "True", posted |-> TRUE]
    ELSE IF resp \in {"null_customer", "null_data"}
    THEN [ret |-> "raise", posted |-> TRUE]
    ELSE [ret |-> "False", posted |-> TRUE]

\* Responses of the backend to the revokeCustomerToken mutation:
\* "confirmed" is {data: {revokeCustomerToken: {result: true}}}, "unconfirmed"
\* has result false, "missing" lacks data, revokeCustomerToken or result, and
\* "errors_null" is the GraphQL error response
\* {errors: [...], data: {revokeCustomerToken: null}} and "null_data" is
\* {data: null}.
LogoutResponses ==
    {"transport", "confirmed", "unconfirmed", "missing", "errors_null", "null_data"}

\* logout_b2b: ret "raise" is the uncaught AttributeError of
\* data["data"].get("revokeCustomerToken", {}).get("result") on a null field
\* or a null data.
logout_b2b(resp) ==
    IF ~Truthy(b2b_token)
    THEN [ret |-> "True", posted |-> FALSE, token |-> b2b_token, cfg |-> cfg_token]
    ELSE IF resp = "confirmed"
    THEN [ret |-> "True", posted |-> TRUE, token |-> NoneVal, cfg |-> NoneVal]
    ELSE IF resp \in {"errors_null", "null_data"}
    THEN [ret |-> "raise", posted |-> TRUE, token |-> b2b_token, cfg |-> cfg_token]
    ELSE [ret |-> "False", posted |-> TRUE, token |-> b2b_token, cfg |-> cfg_token]

\* MMAPIClient.authenticate_b2b(username, password), as the command surface
\* calls it. (The time the authenticator operations take when called on
\* their own is the time Tick lets pass.)
AuthenticateB2B(username, password, resp) ==
    /\ pc # "loop"
    /\ LET r == authenticate_b2b(username, password, resp)
       IN  /\ b2b_token' = r.token
           /\ cfg_token' = r.cfg
           /\ last' = [op |-> "login", ret |-> r.ret, posted |-> r.posted,
                       to |-> PostedTo(r.posted),
                       resp |-> Seen(r.posted, resp.kind),
                       user |-> username, pwd |-> password,
                       pre_token |-> b2b_token, pre_cfg |-> cfg_token,
                       cfg_user |-> cfg_username, cfg_pwd |-> cfg_password]
    /\ UNCHANGED <<cfgVars, dirVars, catVars, elapsed, sincePrevGet, callVars, histVars>>

VerifyB2BToken(resp) ==
    /\ pc # "loop"
    /\ LET r == verify_b2b_token(resp)
       IN  /\ last' = [op |-> "verify", ret |-> r.ret, posted |-> r.posted,
                       to |-> PostedTo(r.posted),
                       resp |-> Seen(r.posted, resp),
                       user |-> NoneVal, pwd |-> NoneVal,
                       pre_token |-> b2b_token, pre_cfg |-> cfg_token,
                       cfg_user |-> cfg_username, cfg_pwd |-> cfg_password]
    /\ UNCHANGED <<cfgVars, dirVars, catVars, cfg_token, b2b_token, elapsed, sincePrevGet, callVars, histVars>>

LogoutB2B(resp) ==
    /\ pc # "loop"
    /\ LET r == logout_b2b(resp)
       IN  /\ b2b_token' = r.token
           /\ cfg_token' = r.cfg
           /\ last' = [op |-> "logout", ret |-> r.ret, posted |-> r.posted,
                       to |-> PostedTo(r.posted),
                       resp |-> Seen(r.posted, resp),
                       user |-> NoneVal, pwd |-> NoneVal,
                       pre_token |-> b2b_token, pre_cfg |-> cfg_token,
                       cfg_user |-> cfg_username, cfg_pwd |-> cfg_password]
    /\ UNCHANGED <<cfgVars, dirVars, catVars, elapsed, sincePrevGet, callVars, histVars>>

\* MMAPIClient(config): a fresh client (and its MMAuthClient) is constructed
\* from the shared configuration.
Construct ==
    /\ pc # "loop"
    /\ b2b_token' = InitToken(cfg_token)
    /\ elapsed' = Horizon
    /\ pc' = "idle"
    /\ platform' = "b2c"
    /\ attempt' = 0
    /\ headers' = NoneVal
    /\ result' = NoneVal
    /\ gets' = 0
    /\ fails' = 0
    /\ authCalls' = 0
    /\ lastResp' = "none"
    /\ lastReauth' = "no"
    /\ reauthGet' = 0
    /\ spaced' = TRUE
    /\ marks' = 0
    /\ slept' = 0
    /\ last' = [op |-> "construct", ret |-> "True", posted |-> FALSE, to |-> "none",
                resp |-> "none",
                user |-> NoneVal, pwd |-> NoneVal,
                pre_token |-> b2b_token, pre_cfg |-> cfg_token,
                cfg_user |-> cfg_username, cfg_pwd |-> cfg_password]
    /\ UNCHANGED <<cfgVars, dirVars, catVars, cfg_token, sincePrevGet>>

\* config.set_b2b_token(token): the token is written into the shared
\* configuration, by whoever holds it, between two operations of the client.
SetB2BToken(token) ==
    /\ pc # "loop"
    /\ cfg_token' = token
    /\ UNCHANGED <<cfgVars, dirVars, catVars, b2b_token, elapsed, sincePrevGet, callVars,
                   histVars, last>>

\* config.set_b2b_credentials(username, password): the credentials are
\* written into the shared configuration, by whoever holds it, between two
\* operations of the client; the tokens and the client are left alone.
SetB2BCredentials(username, password) ==
    /\ pc # "loop"
    /\ cfg_username' = username
    /\ cfg_password' = password
    /\ UNCHANGED <<retry_attempts, rate_limit_delay, dirVars, catVars, cfg_token, b2b_token,
                   elapsed, sincePrevGet, callVars, histVars, last>>

\* Time passes between two operations.
Tick ==
    /\ pc # "loop"
    /\ elapsed' = Sat(elapsed + 1)
    /\ sincePrevGet' = Sat(sincePrevGet + 1)
    /\ UNCHANGED <<cfgVars, dirVars, catVars, cfg_token, b2b_token, callVars, histVars, last>>

\* --------------------------------------- api_client.py: one whole query
\* The client as one value: what the executor and the authenticator keep
\* and what the history records of them.
Client ==
    [b2b_token |-> b2b_token, cfg_token |-> cfg_token, elapsed |-> elapsed,
     sincePrevGet |-> sincePrevGet, pc |-> pc, platform |-> platform,
     attempt |-> attempt, headers |-> headers, result |-> result, gets |-> gets,
     fails |-> fails, authCalls |-> authCalls, lastResp |-> lastResp,
     lastReauth |-> lastReauth, reauthGet |-> reauthGet, spaced |-> spaced,
     marks |-> marks, slept |-> slept, last |-> last]

\* The client is left as the value c.
Becomes(c) ==
    /\ b2b_token' = c.b2b_token
    /\ cfg_token' = c.cfg_token
    /\ elapsed' = c.elapsed
    /\ sincePrevGet' = c.sincePrevGet
    /\ pc' = c.pc
    /\ platform' = c.platform
    /\ attempt' = c.attempt
    /\ headers' = c.headers
    /\ result' = c.result
    /\ gets' = c.gets
    /\ fails' = c.fails
    /\ authCalls' = c.authCalls
    /\ lastResp' = c.lastResp
    /\ lastReauth' = c.lastReauth
    /\ reauthGet' = c.reauthGet
    /\ spaced' = c.spaced
    /\ marks' = c.marks
    /\ slept' = c.slept
    /\ last' = c.last
    /\ UNCHANGED cfgVars

\* What the backend does with one GET: it answers after d without errors
\* ("ok"), with a list of errors that mention authorization or not ("errors"; login
\* and d2 are the answer to, and the duration of, the login request that a
\* re-authentication sends), or the request fails in transport ("fail").
NoLogin == [kind |-> "transport", token |-> NoneVal]

Ok(d) == [kind |-> "ok", d |-> d, mentions |-> FALSE, login |-> NoLogin, d2 |-> 0]

Errors(d, mentions, login, d2) ==
    [kind |-> "errors", d |-> d, mentions |-> mentions, login |-> login, d2 |-> d2]

Fail(d) == [kind |-> "fail", d |-> d, mentions |-> FALSE, login |-> NoLogin, d2 |-> 0]

\* It answers after d with a malformed body (one of MalformedBodies).
Malformed(d, body) ==
    [kind |-> body, d |-> d, mentions |-> FALSE, login |-> NoLogin, d2 |-> 0]

\* A script is what the backend does with the GETs of one query, in their
\* order; its last entry is what it does with every further GET.
At(script, n) == script[IF n <= Len(script) THEN n ELSE Len(script)]

\* _rate_limit() and the lines before the loop, on the client c.
Entered(c, p) ==
    [c EXCEPT !.elapsed = 0,
              !.sincePrevGet = Sat(@ + RateLimitWait(c.elapsed)),
              !.platform = p,
              !.headers = QueryHeaders(p, c.b2b_token),
              !.attempt = 0,
              !.pc = "loop",
              !.result = NoneVal,
              !.gets = 0,
              !.fails = 0,
              !.authCalls = 0,
              !.lastResp = "none",
              !.lastReauth = "no",
              !.reauthGet = 0,
              !.spaced = TRUE,
              !.marks = 1,
              !.slept = 0]

\* One iteration of the loop on the client c, the backend doing ev.
Answered(c, ev) ==
    LET sent == [c EXCEPT !.gets = @ + 1,
                          !.spaced = (c.sincePrevGet >= rate_limit_delay)]
    IN  IF ev.kind = "ok"
        THEN [sent EXCEPT !.lastResp = "ok", !.slept = 0, !.lastReauth = "no",
                          !.result = c.gets + 1, !.pc = "done",
                          !.elapsed = Sat(@ + ev.d), !.sincePrevGet = Sat(ev.d)]
        ELSE IF ev.kind \in MalformedBodies
        THEN [sent EXCEPT !.lastResp = ev.kind, !.lastReauth = "no", !.slept = 0,
                          !.pc = "done",
                          !.result = IF BodyRaises(c.platform, ev.kind) THEN Raised
                                     ELSE NoneVal,
                          !.elapsed = Sat(@ + ev.d), !.sincePrevGet = Sat(ev.d)]
        ELSE IF ev.kind = "fail"
        THEN IF HasNextAttempt(c.attempt)
             THEN [sent EXCEPT !.lastResp = "fail", !.lastReauth = "no",
                               !.fails = @ + 1, !.result = NoneVal,
                               !.slept = Backoff(c.attempt),
                               !.elapsed = Sat(@ + ev.d + Backoff(c.attempt)),
                               !.sincePrevGet = Sat(ev.d + Backoff(c.attempt)),
                               !.attempt = @ + 1]
             ELSE [sent EXCEPT !.lastResp = "fail", !.lastReauth = "no",
                               !.fails = @ + 1, !.result = NoneVal,
                               !.slept = 0,
                               !.elapsed = Sat(@ + ev.d),
                               !.sincePrevGet = Sat(ev.d),
                               !.pc = "done"]
        ELSE LET seen == [sent EXCEPT !.lastResp = IF ev.mentions THEN "errors_auth"
                                                   ELSE "errors_other",
                                      !.slept = 0]
             IN  IF IsAuthError(c.platform, ev.mentions)
                 THEN LET r == authenticate_b2b(NoneVal, NoneVal, ev.login)
                          t == IF r.posted THEN ev.d + ev.d2 ELSE ev.d
                          called ==
                              [seen EXCEPT !.authCalls = @ + 1,
                                           !.last = [op |-> "login", ret |-> r.ret,
                                                     posted |-> r.posted,
                                                     to |-> PostedTo(r.posted),
                                                     resp |-> Seen(r.posted, ev.login.kind),
                                                     user |-> NoneVal, pwd |-> NoneVal,
                                                     pre_token |-> c.b2b_token,
                                                     pre_cfg |-> c.cfg_token,
                                                     cfg_user |-> cfg_username, cfg_pwd |-> cfg_password],
                                           !.elapsed = Sat(@ + t),
                                           !.sincePrevGet = Sat(t)]
                      IN  IF r.ret = "True"
                          THEN [called EXCEPT !.b2b_token = r.token,
                                              !.cfg_token = r.cfg,
                                              !.headers = get_b2b_headers(r.token),
                                              !.attempt = AfterReauth(@),
                                              !.result = NoneVal,
                                              !.lastReauth = "ok",
                                              !.reauthGet = c.gets + 1]
                          ELSE [called EXCEPT !.pc = "done",
                                              !.result = IF r.ret = "raise" THEN Raised
                                                         ELSE NoneVal,
                                              !.lastReauth = IF r.ret = "raise" THEN "raised"
                                                             ELSE "failed"]
                 ELSE [seen EXCEPT !.pc = "done", !.result = NoneVal,
                                   !.lastReauth = "no",
                                   !.elapsed = Sat(@ + ev.d),
                                   !.sincePrevGet = Sat(ev.d)]

\* The value e, computed once, and then what F makes of it.
Then(e, F(_)) == CHOOSE r \in {F(x) : x \in {e}} : TRUE

\* The for loop from the client c on, until the query returns or raises.
RECURSIVE Ran(_, _)
Ran(c, script) ==
    IF c.pc # "loop" THEN c
    ELSE IF c.attempt >= retry_attempts
    THEN [c EXCEPT !.pc = "done", !.result = NoneVal]
    ELSE Then(Answered(c, At(script, c.gets + 1)), LAMBDA next : Ran(next, script))

\* _execute_query(platform = p, ...) as one call on the client c: the client
\* it leaves, whose result is what the call returns.
execute_query(c, p, script) == Then(Entered(c, p), LAMBDA entered : Ran(entered, script))

\* Whether the query returned a response (and not None, nor raised).
Responded(c) == c.pc = "done" /\ c.lastResp = "ok"

\* Whether the query was left by an exception: that of authenticate_b2b, or
\* that of a malformed body.
QueryRaised(c) == c.pc = "done" /\ c.lastResp # "ok" /\ c.result = Raised

\* ------------------------------------------------ api_client.py: the catalog
MaxPages == 3        \* a source has MaxPages pages; caps range over 0..MaxPages

\* What _execute_query hands to search_products:
\*   "absent"          None (the executor returned no response)
\*   "no_data"         {}                         "null_data"      {data: null}
\*   "no_products"     {data: {}}                 "null_products"  {data: {products: null}}
\*   "no_items"        {data: {products: {total_count, page_info}}}
\*   "no_total_count"  {data: {products: {items, page_info}}}
\*   "no_page_info"    {data: {products: {items, total_count}}}
\*   "bad_item"        an item record lacks a field _parse_product indexes
\*   "ok"              {data: {products: {items, total_count, page_info}}}
ResponseShapes ==
    {"absent", "no_data", "null_data", "no_products", "null_products",
     "no_items", "no_total_count", "no_page_info", "bad_item", "ok"}

\* A product is kept by the two fields the comparison reads: sku and
\* price (price_range.final_price.value).
Item(sku, price) == [sku |-> sku, price |-> price]

Response(shape, items, total_pages) ==
    [shape |-> shape, items |-> items, total_pages |-> total_pages]

\* Optional[SearchResult]: <<>> is None, <<r>> is the SearchResult r.
NoResult == <<>>

\* The lines of search_products(term, platform, page) after the query, resp
\* being what _execute_query returned. ret "raise" is the KeyError /
\* TypeError of the unguarded subscripts.
search_products(resp, page) ==
    IF resp.shape \in {"absent", "no_data", "no_products"}
    THEN [ret |-> "None", result |-> NoResult]
    ELSE IF resp.shape = "ok"
    THEN [ret |-> "result",
          result |-> <<[products |-> resp.items, total_pages |-> resp.total_pages,
                        current_page |-> page]>>]
    ELSE [ret |-> "raise", result |-> NoResult]

\* A call of a catalog operation that has not returned yet, and its return.
Call(op, args) == [op |-> op, phase |-> "call", args |-> args]

Return(op, args, out) == [op |-> op, phase |-> "return", args |-> args, out |-> out]

Called(op) == cat.op = op /\ cat.phase = "call"

Returned(op) == cat.op = op /\ cat.phase = "return"

\* None, returned by _execute_query.
Absent == Response("absent", <<>>, 0)

\* An answer of the backend to one search: the script of its GETs and the
\* body of the response it gives when it gives one.
Answer(script, body) == [script |-> script, body |-> body]

\* What the query that left the client q hands to search_products.
Handed(q, body) == IF Responded(q) THEN body ELSE Absent

\* search_products(term, platform = p, page) called on the client c, the
\* backend answering with answer: the client it leaves, what the query
\* handed over and what the call returns (or that it raises: the exception
\* of the query, or that of the lines after it).
SearchOn(c, p, page, answer) ==
    Then(execute_query(c, p, answer.script), LAMBDA q :
        LET r == search_products(Handed(q, answer.body), page)
        IN  IF QueryRaised(q)
            THEN [client |-> q, handed |-> <<>>, ret |-> "raise", result |-> NoResult]
            ELSE [client |-> q, handed |-> <<Handed(q, answer.body)>>, ret |-> r.ret,
                  result |-> r.result])

SearchProducts ==
    /\ Called("search_products")
    /\ \E r \in {SearchOn(Client, cat.args.platform, cat.args.page, cat.args.answer)} :
           /\ Becomes(r.client)
           /\ cat' = Return("search_products", cat.args,
                            [ret |-> r.ret, result |-> r.result, handed |-> r.handed])
    /\ UNCHANGED dirVars

\* Optional[int]: <<>> is None, <<m>> is the int m.
NoCap == <<>>

\* `max_pages and page >= max_pages`
CapReached(max_pages, page) ==
    /\ max_pages # NoCap
    /\ max_pages[1] # 0
    /\ page >= max_pages[1]

\* The backend's answer for a page; beyond the source every GET fails.
PageOf(source, page) ==
    IF page \in DOMAIN source THEN source[page] ELSE Answer(<<Fail(0)>>, Absent)

\* The `while True` loop of search_all_pages from the given page on, on the
\* client c: requested are the pages asked for so far, handed what the
\* queries for them handed over.
RECURSIVE FetchFrom(_, _, _, _, _, _, _, _)
FetchFrom(c, p, source, max_pages, page, all_products, requested, handed) ==
    Then(SearchOn(c, p, page, PageOf(source, page)), LAMBDA r :
        LET req == Append(requested, page)
            had == handed \o r.handed
        IN  IF r.ret = "raise"
            THEN [client |-> r.client, ret |-> "raise", products |-> <<>>,
                  requested |-> req, handed |-> had]
            ELSE IF r.ret = "None" \/ r.result[1].products = <<>>
            THEN [client |-> r.client, ret |-> "list", products |-> all_products,
                  requested |-> req, handed |-> had]
            ELSE LET all == all_products \o r.result[1].products
                 IN  IF CapReached(max_pages, page) \/ page >= r.result[1].total_pages
                     THEN [client |-> r.client, ret |-> "list", products |-> all,
                           requested |-> req, handed |-> had]
                     ELSE FetchFrom(r.client, p, source, max_pages, page + 1, all, req, had))

search_all_pages(c, p, source, max_pages) ==
    FetchFrom(c, p, source, max_pages, 1, <<>>, <<>>, <<>>)

SearchAllPages ==
    /\ Called("search_all_pages")
    /\ \E r \in {search_all_pages(Client, cat.args.platform, cat.args.source,
                                  cat.args.max_pages)} :
           /\ Becomes(r.client)
           /\ cat' = Return("search_all_pages", cat.args,
                            [ret |-> r.ret, products |-> r.products,
                             requested |-> r.requested, handed |-> r.handed])
    /\ UNCHANGED dirVars

\* The login that issues the token "tokB", and the one answered with a null
\* generateCustomerToken.
LoginTokB == [kind |-> "token", token |-> "tokB"]

LoginNullObject == [kind |-> "null_object", token |-> NoneVal]

\* The scripts of one query: answered at once (in no time, or after
\* MaxDur), every GET failing, one failure and then an answer, errors that
\* do not mention authorization, an authorization error whose login is
\* issued a token and then an answer, authorization errors for ever, an
\* authorization error whose login is answered with a null object, and the
\* two malformed bodies.
Scripts ==
    {<<Ok(0)>>, <<Ok(MaxDur)>>, <<Fail(0)>>, <<Fail(0), Ok(0)>>,
     <<Errors(0, FALSE, NoLogin, 0)>>,
     <<Errors(0, TRUE, LoginTokB, 0), Ok(0)>>,
     <<Errors(0, TRUE, LoginTokB, 0)>>,
     <<Errors(0, TRUE, LoginNullObject, 0)>>,
     <<Malformed(0, "not_object")>>,
     <<Malformed(0, "errors_not_list")>>}

\* The answers a page of a source may give: nothing (every GET fails), no
\* product, one product (priced by its page number, so that the order
\* shows), a response without items, or one product after a
\* re-authentication.
PageAnswer(kind, page, total_pages) ==
    CASE kind = "absent" -> Answer(<<Fail(0)>>, Response("ok", <<Item("a", page)>>, total_pages))
      [] kind = "empty" -> Answer(<<Ok(0)>>, Response("ok", <<>>, total_pages))
      [] kind = "full" -> Answer(<<Ok(0)>>, Response("ok", <<Item("a", page)>>, total_pages))
      [] kind = "no_items" -> Answer(<<Ok(0)>>, Response("no_items", <<>>, total_pages))
      [] kind = "reauth" -> Answer(<<Errors(0, TRUE, LoginTokB, 0), Ok(0)>>,
                                   Response("ok", <<Item("a", page)>>, total_pages))

Sources ==
    {[p \in 1..MaxPages |-> PageAnswer(kinds[p], p, tp)] :
        kinds \in [1..MaxPages -> {"absent", "empty", "full", "no_items", "reauth"}],
        tp \in 1..MaxPages}

Caps == {NoCap} \cup {<<m>> : m \in 0..MaxPages}

\* The bodies of the responses to one search.
SingleResponses ==
    {Response(shape, items, tp) :
        shape \in ResponseShapes \ {"absent"}, items \in {<<>>, <<Item("a", 1)>>},
        tp \in 1..MaxPages}

Platforms == {"b2c", "b2b"}

\* The calls of the two search operations.
SearchCalls ==
    {Call("search_products", [platform |-> p, page |-> page, answer |-> Answer(script, body)]) :
        p \in Platforms, page \in 1..MaxPages, script \in Scripts, body \in SingleResponses}
    \cup
    {Call("search_all_pages", [platform |-> p, source |-> source, max_pages |-> max_pages]) :
        p \in Platforms, source \in Sources, max_pages \in Caps}

NextSearch == SearchProducts \/ SearchAllPages

MaxOffer == 1        \* a listed product's final price ranges over 0..MaxOffer
MaxProducts == 2     \* a result page lists up to MaxProducts products

Skus == {"a", "b"}

\* Mutant: the business price is taken as the minuend.
Difference_Swapped(c, b) == b - c

\* difference = b2c_product.price - b2b_product.price
Difference(c, b) == c - b

\* savings_pct = (difference / b2c_product.price) * 100 if price > 0 else 0
SavingsPct(c, difference) == IF c > 0 THEN Pct(difference, c) ELSE ZeroPct

\* b2b_by_sku.get(sku) on {p.sku: p for p in products}: a later product
\* replaces an earlier one of the same sku; <<>> is None.
RECURSIVE BySku(_, _)
BySku(products, sku) ==
    IF products = <<>> THEN <<>>
    ELSE IF products[Len(products)].sku = sku THEN <<products[Len(products)]>>
    ELSE BySku(SubSeq(products, 1, Len(products) - 1), sku)

PriceComparison(b2c_product, b2b_product) ==
    LET difference == Difference(b2c_product.price, b2b_product.price)
    IN  [sku |-> b2c_product.sku,
         b2c_price |-> b2c_product.price,
         b2b_price |-> b2b_product.price,
         difference |-> difference,
         savings_percentage |-> SavingsPct(b2c_product.price, difference)]

\* The `for b2c_product in b2c_result.products` loop.
RECURSIVE Comparisons(_, _)
Comparisons(b2c_products, b2b_products) ==
    IF b2c_products = <<>> THEN <<>>
    ELSE LET b2b_product == BySku(b2b_products, Head(b2c_products).sku)
             rest == Comparisons(Tail(b2c_products), b2b_products)
         IN  IF b2b_product = <<>> THEN rest
             ELSE <<PriceComparison(Head(b2c_products), b2b_product[1])>> \o rest

\* One comparison put into a list sorted by savings_percentage, highest
\* first, behind the ones with the same percentage (the sort is stable).
RECURSIVE Insert(_, _)
Insert(sorted, x) ==
    IF sorted = <<>> THEN <<x>>
    ELSE IF PctLess(Head(sorted).savings_percentage, x.savings_percentage)
    THEN <<x>> \o sorted
    ELSE <<Head(sorted)>> \o Insert(Tail(sorted), x)

\* comparisons.sort(key=lambda x: x.savings_percentage, reverse=True)
RECURSIVE SortBySavings(_)
SortBySavings(comparisons) ==
    IF comparisons = <<>> THEN <<>>
    ELSE Insert(SortBySavings(SubSeq(comparisons, 1, Len(comparisons) - 1)),
                comparisons[Len(comparisons)])

\* What a search that was not made handed over.
NotSearched == <<>>

\* compare_prices(term, n) called on the client c, the two backends
\* answering with b2c_answer and b2b_answer: the consumer search, then the
\* business search on the client the first one leaves. An exception of the
\* consumer search leaves the call before the business search is made.
compare_prices(c, b2c_answer, b2b_answer) ==
    Then(SearchOn(c, "b2c", 1, b2c_answer), LAMBDA b2c :
        IF b2c.ret = "raise"
        THEN [client |-> b2c.client, ret |-> "raise", comparisons |-> <<>>,
              b2c |-> b2c.handed, b2b |-> NotSearched]
        ELSE Then(SearchOn(b2c.client, "b2b", 1, b2b_answer), LAMBDA b2b :
            IF b2b.ret = "raise"
            THEN [client |-> b2b.client, ret |-> "raise", comparisons |-> <<>>,
                  b2c |-> b2c.handed, b2b |-> b2b.handed]
            ELSE IF b2c.result = NoResult \/ b2b.result = NoResult
            THEN [client |-> b2b.client, ret |-> "list", comparisons |-> <<>>,
                  b2c |-> b2c.handed, b2b |-> b2b.handed]
            ELSE [client |-> b2b.client, ret |-> "list",
                  comparisons |-> SortBySavings(Comparisons(b2c.result[1].products,
                                                            b2b.result[1].products)),
                  b2c |-> b2c.handed, b2b |-> b2b.handed]))

\* What a comparison returns and what its two searches were handed.
Compared(r) == [ret |-> r.ret, comparisons |-> r.comparisons, b2c |-> r.b2c, b2b |-> r.b2b]

ComparePrices ==
    /\ Called("compare_prices")
    /\ \E r \in {compare_prices(Client, cat.args.b2c, cat.args.b2b)} :
           /\ Becomes(r.client)
           /\ cat' = Return("compare_prices", cat.args, Compared(r))
    /\ UNCHANGED dirVars

\* ------------------------------------------------ server.py: compare_prices
\* [c for c in comparisons if c.difference > 0]
RECURSIVE Cheaper(_)
Cheaper(comparisons) ==
    IF comparisons = <<>> THEN <<>>
    ELSE IF Head(comparisons).difference > 0
    THEN <<Head(comparisons)>> \o Cheaper(Tail(comparisons))
    ELSE Cheaper(Tail(comparisons))

RECURSIVE SumDifference(_)
SumDifference(comparisons) ==
    IF comparisons = <<>> THEN 0
    ELSE Head(comparisons).difference + SumDifference(Tail(comparisons))

\* The sum of the percentages, as one fraction.
RECURSIVE SumPct(_)
SumPct(comparisons) ==
    IF comparisons = <<>> THEN ZeroPct
    ELSE LET p == Head(comparisons).savings_percentage
             q == SumPct(Tail(comparisons))
         IN  [num |-> p.num * q.den + q.num * p.den, den |-> p.den * q.den]

NoSummary == [cheaper |-> 0, total_savings |-> 0, avg_savings |-> ZeroPct]

\* handle_compare_prices inside the try of call_tool, on the client c: the
\* text answered. "error" is the "Error: ..." text call_tool makes of an
\* exception, here of the search's or of the division by len([...]) = 0.
call_tool_compare_prices(c, b2c_answer, b2b_answer) ==
    Then(compare_prices(c, b2c_answer, b2b_answer), LAMBDA r :
        LET cheaper == Cheaper(r.comparisons)
        IN  IF r.ret = "raise"
            THEN [client |-> r.client, text |-> "error", compared |-> Compared(r),
                  summary |-> NoSummary]
            ELSE IF r.comparisons = <<>>
            THEN [client |-> r.client, text |-> "no_match", compared |-> Compared(r),
                  summary |-> NoSummary]
            ELSE IF Len(cheaper) = 0
            THEN [client |-> r.client, text |-> "error", compared |-> Compared(r),
                  summary |-> NoSummary]
            ELSE [client |-> r.client, text |-> "comparison", compared |-> Compared(r),
                  summary |-> [cheaper |-> Len(cheaper),
                               total_savings |-> SumDifference(cheaper),
                               avg_savings |-> [num |-> SumPct(cheaper).num,
                                                den |-> SumPct(cheaper).den * Len(cheaper)]]])

CallToolComparePrices ==
    /\ Called("call_tool_compare_prices")
    /\ \E r \in {call_tool_compare_prices(Client, cat.args.b2c, cat.args.b2b)} :
           /\ Becomes(r.client)
           /\ cat' = Return("call_tool_compare_prices", cat.args,
                            [text |-> r.text, compared |-> r.compared,
                             summary |-> r.summary])
    /\ UNCHANGED dirVars

ListsUpTo(S, n) == UNION {[1..k -> S] : k \in 0..n}

\* The answers to one of the two searches of a comparison: nothing (every
\* GET fails), a response without items, a list of products, and, after an
\* authorization error, a login issued a token and then a list, or a login
\* answered with a null object; and errors that are not iterable.
CompareSides ==
    {Answer(<<Fail(0)>>, Response("ok", <<>>, 1)),
     Answer(<<Ok(0)>>, Response("no_items", <<>>, 1)),
     Answer(<<Errors(0, TRUE, LoginTokB, 0), Ok(0)>>, Response("ok", <<Item("a", 1)>>, 1)),
     Answer(<<Errors(0, TRUE, LoginNullObject, 0)>>, Response("ok", <<Item("a", 1)>>, 1)),
     Answer(<<Malformed(0, "errors_not_list")>>, Response("ok", <<Item("a", 1)>>, 1))}
    \cup
    {Answer(<<Ok(0)>>, Response("ok", items, 1)) :
        items \in ListsUpTo({Item(sku, price) : sku \in Skus, price \in 0..MaxOffer},
                            MaxProducts)}

CompareCalls ==
    {Call(op, [b2c |-> b2c, b2b |-> b2b]) :
        op \in {"compare_prices", "call_tool_compare_prices"},
        b2c \in CompareSides, b2b \in CompareSides}

NextCompare == ComparePrices \/ CallToolComparePrices

\* The catalog operations together.
NextCatalog == NextPrice \/ NextSearch \/ NextCompare

\* The query executor.
NextExec ==
    \/ \E p \in {"b2c", "b2b"} : ExecuteQuery(p)
    \/ \E d \in 0..MaxDur : AttemptOk(d)
    \/ \E d \in 0..MaxDur, m \in BOOLEAN, resp \in LoginResponses, d2 \in 0..MaxDur :
           AttemptErrors(d, m, resp, d2)
    \/ \E d \in 0..MaxDur : AttemptFail(d)
    \/ \E d \in 0..MaxDur, body \in MalformedBodies : AttemptMalformed(d, body)
    \/ LoopExit
    \/ Tick

\* The authenticator, called on its own.
NextAuth ==
    \/ \E u \in Usernames, p \in Passwords, resp \in LoginResponses :
           AuthenticateB2B(u, p, resp)
    \/ \E resp \in VerifyResponses : VerifyB2BToken(resp)
    \/ \E resp \in LogoutResponses : LogoutB2B(resp)
    \/ Construct

\* The configuration's token written from outside the client.
NextInject == \E token \in {"tokA"} : SetB2BToken(token)

\* The configuration's credentials written from outside the client.
NextCredentials ==
    \E username \in Usernames, password \in Passwords : SetB2BCredentials(username, password)

\* The authenticator on a configuration whose credentials may be replaced.
NextLogin == NextAuth \/ NextCredentials

Next == NextExec \/ NextLogin \/ NextInject \/ NextStore \/ NextCatalog

\* Every configuration the executor may run with.
Spec == Init /\ [][Next]_vars

SpecExec == Init /\ [][NextExec]_vars

\* One iteration of the for loop of _execute_query, or its exit.
LoopStep ==
    \/ \E d \in 0..MaxDur : AttemptOk(d)
    \/ \E d \in 0..MaxDur, m \in BOOLEAN, resp \in LoginResponses, d2 \in 0..MaxDur :
           AttemptErrors(d, m, resp, d2)
    \/ \E d \in 0..MaxDur : AttemptFail(d)
    \/ \E d \in 0..MaxDur, body \in MalformedBodies : AttemptMalformed(d, body)
    \/ LoopExit

\* The executor with its progress: requests.get is called with a timeout
\* and the login request likewise, so an iteration that has begun ends (in
\* a response or in a RequestException), and nothing else runs meanwhile.
\* Every retry_attempts, on a client configured with credentials and no
\* token, one second between queries.
InitLive ==
    /\ Init
    /\ rate_limit_delay = DefaultRateLimitDelay
    /\ cfg_username = "user"
    /\ cfg_password = "pw"
    /\ cfg_token = NoneVal

SpecExecLive == InitLive /\ [][NextExec]_vars /\ WF_vars(LoopStep)

\* The authenticator under the default retry and rate-limit settings.
InitAuth ==
    /\ Init
    /\ retry_attempts = DefaultRetryAttempts
    /\ rate_limit_delay = DefaultRateLimitDelay

SpecAuth == InitAuth /\ [][NextLogin]_vars

\* The store directory, next to a client without credentials.
InitStore ==
    /\ InitAuth
    /\ cfg_username = NoneVal
    /\ cfg_password = NoneVal
    /\ cfg_token = NoneVal

SpecStore == InitStore /\ [][NextStore]_vars

\* The price model on its own.
SpecPrice == InitStore /\ [][NextPrice]_vars

\* A fresh client, with or without configured credentials and without a
\* token, on which one catalog operation is called.
InitCalled(calls) ==
    /\ InitClient
    /\ InitStores
    /\ retry_attempts = DefaultRetryAttempts
    /\ rate_limit_delay = DefaultRateLimitDelay
    /\ cfg_password = "pw"
    /\ cfg_token = NoneVal
    /\ cat \in calls

\* Searching on its own.
SpecSearch == InitCalled(SearchCalls) /\ [][NextSearch]_vars

\* Comparing on its own, on a client with configured credentials.
InitCompare == InitCalled(CompareCalls) /\ cfg_username = "user"

SpecCompare == InitCompare /\ [][NextCompare]_vars

\* The query executor when every response arrives at once and one
\* operation follows the other at once: how long a request takes and how
\* long the client rests change when a request is sent, not what is sent
\* or where. (Time still passes in the sleeps of the rate limit and the
\* backoff.)
NextExecAtOnce ==
    \/ \E p \in {"b2c", "b2b"} : ExecuteQuery(p)
    \/ AttemptOk(0)
    \/ \E m \in BOOLEAN, resp \in LoginResponses : AttemptErrors(0, m, resp, 0)
    \/ AttemptFail(0)
    \/ \E body \in MalformedBodies : AttemptMalformed(0, body)
    \/ LoopExit

\* Queries and authenticator operations on one client: configured with
\* credentials and no token, two attempts per query, one second between
\* queries.
NextWire == NextExecAtOnce \/ NextAuth

InitWire ==
    /\ Init
    /\ retry_attempts = 2
    /\ rate_limit_delay = DefaultRateLimitDelay
    /\ cfg_username = "user"
    /\ cfg_password = "pw"
    /\ cfg_token = NoneVal

SpecWire == InitWire /\ [][NextWire]_vars

\* The same with tokens injected into the configuration, one attempt per
\* query.
NextToken == NextWire \/ NextInject

InitInject ==
    /\ Init
    /\ retry_attempts = 1
    /\ rate_limit_delay = DefaultRateLimitDelay
    /\ cfg_username = "user"
    /\ cfg_password = "pw"
    /\ cfg_token = NoneVal

SpecToken == InitInject /\ [][NextToken]_vars

\* ===================================================================== claims
\* Whether a bearer token is present: what get_b2b_headers, verify_b2b_token
\* and logout_b2b test before they use it.
TokenPresent(tok) == get_b2b_headers(tok) # NoneVal

\* The last errors response was one of the cases in which nothing is retried:
\* consumer backend, no mention of authorization, or a re-authentication that
\* failed (authenticate_b2b returned False, or raised on the shape of the
\* login response).
ErrorsWithoutRetry ==
    /\ lastResp \in {"errors_auth", "errors_other"}
    /\ \/ platform = "b2c"
       \/ lastResp = "errors_other"
       \/ lastReauth \in {"failed", "raised"}

\* C1 (as claimed): once a call has finished, a successful re-authentication
\* in it was followed by a retried GET, and the response of a retried GET that
\* succeeded is what the call returned.
C1_ReauthIsRetried ==
    (pc = "done" /\ reauthGet # 0) =>
        /\ gets > reauthGet
        /\ (lastResp = "ok" => result = gets)

\* C2 (as claimed): one _execute_query call invokes authenticate_b2b at most
\* once.
C2_ReauthAtMostOnce == authCalls <= 1

\* C3 (as claimed): inside the loop the transport retry budget still available,
\* retry_attempts - attempt, is reduced by transport failures only; a retry
\* after a re-authentication does not reduce it.
C3_ReauthKeepsBudget ==
    pc = "loop" => retry_attempts - attempt = retry_attempts - fails

\* C4 (as claimed): after an errors response on the consumer backend, or one
\* that does not mention authorization, or one whose re-authentication failed,
\* the call is over with an absent result (no further GET can be sent), and in
\* the first two cases authenticate_b2b was not invoked for it.
C4_ErrorsFailFast ==
    ErrorsWithoutRetry =>
        /\ pc = "done"
        /\ result = NoneVal
        /\ (platform = "b2c" \/ lastResp = "errors_other") => lastReauth = "no"

\* C5: a finished call all of whose GETs failed in transport sent exactly
\* retry_attempts GETs and returned an absent result; a GET answered with a
\* response that carries no errors ends the call, which returns that response.
C5_TransportRetries ==
    /\ (pc = "done" /\ fails = gets) => (gets = retry_attempts /\ result = NoneVal)
    /\ lastResp = "ok" => (pc = "done" /\ result = gets /\ gets <= retry_attempts)

\* C5 witness: three GETs failed in transport and the call returned absent.
C5_Witness ==
    /\ pc = "done"
    /\ retry_attempts = 3
    /\ fails = 3
    /\ gets = 3
    /\ result = NoneVal

\* C6 (as claimed): every physical GET is sent at least rate_limit_delay after
\* the previous one, and the watermark is updated for every GET of a call.
C6_MinSpacing ==
    /\ gets >= 1 => spaced
    /\ marks >= gets

\* The last operation was authenticate_b2b with an empty password, called
\* while no token was held by the authenticator or the configuration.
EmptyPasswordLogin ==
    /\ last.op = "login"
    /\ last.pwd = ""
    /\ last.pre_token = NoneVal
    /\ last.pre_cfg = NoneVal

LoginRefused ==
    /\ last.ret = "False"
    /\ ~last.posted
    /\ b2b_token = NoneVal
    /\ cfg_token = NoneVal

\* C7 (as claimed): authenticate_b2b with an empty password, starting without
\* a token, returns false, leaves the token absent and sends no request.
C7_EmptyPasswordFails == EmptyPasswordLogin => LoginRefused

\* C7 (amended): the same, when the configuration holds no password or no
\* e-mail is available from the argument or the configuration.
C7_EmptyPasswordFailsUnconfigured ==
    (/\ EmptyPasswordLogin
     /\ \/ ~Truthy(last.cfg_pwd)
        \/ ~Truthy(PyOr(last.user, last.cfg_user))) => LoginRefused

\* C7 witness: a login with a user name and an empty password, no password
\* being configured, was refused.
C7_Witness ==
    /\ EmptyPasswordLogin
    /\ last.user = "user"
    /\ last.cfg_pwd = NoneVal
    /\ LoginRefused

\* C8 (as claimed): after a successful authenticate_b2b both copies hold the
\* token and a client constructed from the configuration holds it too and is
\* authenticated; after a failed one both copies are as before.
C8_TokenShared ==
    last.op = "login" =>
        IF last.ret = "True"
        THEN /\ b2b_token = cfg_token
             /\ InitToken(cfg_token) = b2b_token
             /\ is_b2b_authenticated(InitToken(cfg_token))
        ELSE /\ b2b_token = last.pre_token
             /\ cfg_token = last.pre_cfg

\* C9 (as claimed): logout_b2b without a token returns true and sends nothing;
\* with a token it sends the revoke mutation, clears both copies and returns
\* true exactly when the backend confirms, and otherwise returns false with
\* both copies untouched.
C9_Logout ==
    last.op = "logout" =>
        IF ~TokenPresent(last.pre_token)
        THEN /\ last.ret = "True"
             /\ ~last.posted
             /\ b2b_token = last.pre_token
             /\ cfg_token = last.pre_cfg
        ELSE /\ last.posted
             /\ IF last.resp = "confirmed"
                THEN /\ last.ret = "True"
                     /\ b2b_token = NoneVal
                     /\ cfg_token = NoneVal
                ELSE /\ last.ret = "False"
                     /\ b2b_token = last.pre_token
                     /\ cfg_token = last.pre_cfg

\* C10 (as claimed): is_b2b_authenticated() is true exactly when a bearer
\* token is present.
C10_AuthenticatedIffToken ==
    is_b2b_authenticated(b2b_token) <=> TokenPresent(b2b_token)

\* The last operation selected a store by a code whose number is not in the
\* directory.
SelectedUnknown ==
    /\ dir_last.op \in {"set_current_store", "update_config_store", "set_store"}
    /\ dir_last.numeric \notin KnownCodes

\* C15 (as claimed): get_store resolves every spelling of a numeric code (with
\* a b2c_ or mm_ prefix, the _vi suffix, surrounding spaces) to the directory
\* entry of that code.
C15_SpellingsResolveAlike ==
    dir_last.op = "get_store" => dir_last.found = Lookup(dir_last.numeric)

\* C16: selecting an unknown code through set_current_store,
\* update_config_store or the set_store command fails and leaves the current
\* store and both configured store codes as they were.
C16_UnknownStoreNoEffect ==
    SelectedUnknown =>
        /\ ~dir_last.ok
        /\ current_store = dir_last.pre_current
        /\ b2c_store_code = dir_last.pre_b2c
        /\ b2b_store_code = dir_last.pre_b2b

\* C16 witness: the set_store command was refused for b2c_99999_vi after
\* another store had been selected.
C16_Witness ==
    /\ dir_last.op = "set_store"
    /\ dir_last.code = B2cPrefix \o Code99999 \o ViSuffix
    /\ ~dir_last.ok
    /\ b2c_store_code = B2cPrefix \o Code10015 \o ViSuffix
    /\ current_store = Lookup(Code10015)

\* C17 (as claimed): after a successful set_store command for code X the
\* current store is the store X and the configuration holds b2c_X_vi and
\* mm_X_vi.
C17_SetStoreSelects ==
    (dir_last.op = "set_store" /\ dir_last.ok) =>
        /\ current_store = Lookup(dir_last.numeric)
        /\ b2c_store_code = B2cPrefix \o dir_last.numeric \o ViSuffix
        /\ b2b_store_code = MmPrefix \o dir_last.numeric \o ViSuffix

\* C20: a PriceRange built from a regular and a final price (no discount
\* amount passed) has discount_amount = regular - final, has_discount exactly
\* when that amount is positive, and discount_percentage 0 when regular <= 0,
\* otherwise discount_amount / regular * 100.
C20_PriceRangeNumbers ==
    (cat.op = "price_range" /\ cat.given = NoAmount) =>
        /\ cat.discount_amount = cat.regular - cat.final
        /\ cat.has_discount <=> (cat.regular - cat.final > 0)
        /\ cat.regular <= 0 => cat.discount_percentage.num = 0
        /\ cat.regular > 0 =>
               /\ cat.discount_percentage.den > 0
               /\ cat.discount_percentage.num * cat.regular
                      = (cat.regular - cat.final) * 100 * cat.discount_percentage.den

\* A discounted range with a positive regular price: 25 percent off 4.
C20_Witness ==
    /\ cat.op = "price_range"
    /\ cat.given = NoAmount
    /\ cat.regular = 4
    /\ cat.final = 3
    /\ cat.has_discount
    /\ PctEq(cat.discount_percentage, [num |-> 25, den |-> 1])


\* Every query of a search_all_pages call returned, None or a response of
\* the expected shape.
WellFormedSource ==
    /\ Len(cat.out.handed) = Len(cat.out.requested)
    /\ \A i \in DOMAIN cat.out.handed : cat.out.handed[i].shape \in {"absent", "ok"}

\* The query for page p had no product to give.
Exhausted(p) ==
    LET a == cat.out.handed[p] IN a.shape = "absent" \/ a.items = <<>>

\* Page p is a page at which the claim lets the search stop.
StopsAt(p) ==
    \/ Exhausted(p)
    \/ cat.args.max_pages # NoCap /\ p >= cat.args.max_pages[1]
    \/ p >= cat.out.handed[p].total_pages

\* The products of the responses handed over, in their order.
RECURSIVE Concat(_)
Concat(handed) ==
    IF handed = <<>> THEN <<>>
    ELSE Head(handed).items \o Concat(Tail(handed))

\* C13 (as claimed): search_all_pages requests pages 1, 2, 3, ... in order, stops without
\* error at the first page that is absent or empty, reaches the cap
\* max_pages or reaches the reported total_pages, and returns the products of
\* the pages fetched, in order.
C13_StopsAtFirstLimit ==
    (Returned("search_all_pages") /\ WellFormedSource) =>
        /\ cat.out.ret = "list"
        /\ cat.out.requested # <<>>
        /\ \A i \in DOMAIN cat.out.requested : cat.out.requested[i] = i
        /\ \A i \in DOMAIN cat.out.requested :
               IF i = Len(cat.out.requested) THEN StopsAt(i) ELSE ~StopsAt(i)
        /\ cat.out.products = Concat(cat.out.handed)

\* C14 (as claimed): search_products never raises: on every outcome of the
\* query and on every response shape it returns a SearchResult or None.
C14_SearchNeverRaises ==
    Returned("search_products") => cat.out.ret \in {"None", "result"}


\* Both searches of the comparison returned (a result or None).
BothSearched ==
    /\ cat.out.b2c # NotSearched
    /\ cat.out.b2b # NotSearched
    /\ search_products(cat.out.b2c[1], 1).ret # "raise"
    /\ search_products(cat.out.b2b[1], 1).ret # "raise"

EitherAbsent ==
    \/ search_products(cat.out.b2c[1], 1).ret = "None"
    \/ search_products(cat.out.b2b[1], 1).ret = "None"

SkusOf(products) == {products[i].sku : i \in DOMAIN products}

PricesOf(products, sku) ==
    {products[i].price : i \in {j \in DOMAIN products : products[j].sku = sku}}

\* A search of the comparison returned None.
B2cAbsent ==
    /\ cat.out.b2c # NotSearched
    /\ search_products(cat.out.b2c[1], 1).ret = "None"

B2bAbsent ==
    /\ cat.out.b2b # NotSearched
    /\ search_products(cat.out.b2b[1], 1).ret = "None"

\* C11 (as claimed): compare_prices returns the empty list when either
\* search is absent; otherwise (both searches gave a result) every
\* comparison's sku is in both result sets, there is one comparison per
\* consumer product that has a business match, and the list is in
\* non-increasing order of savings_percentage.
C11_CompareMatchesAndSorts ==
    Returned("compare_prices") =>
        /\ (B2cAbsent \/ B2bAbsent) =>
               /\ cat.out.ret = "list"
               /\ cat.out.comparisons = <<>>
        /\ (BothSearched /\ ~EitherAbsent) =>
               LET out == cat.out.comparisons
                   b2c == cat.out.b2c[1].items
                   b2b == cat.out.b2b[1].items
               IN  /\ cat.out.ret = "list"
                   /\ \A i \in DOMAIN out :
                          out[i].sku \in SkusOf(b2c) \cap SkusOf(b2b)
                   /\ \A sku \in Skus :
                          Cardinality({i \in DOMAIN out : out[i].sku = sku})
                              = IF sku \in SkusOf(b2b)
                                THEN Cardinality({i \in DOMAIN b2c : b2c[i].sku = sku})
                                ELSE 0
                   /\ \A i, j \in DOMAIN out :
                          i < j => ~PctLess(out[i].savings_percentage,
                                            out[j].savings_percentage)

\* C12: a PriceComparison made from consumer price c and the matching
\* business price b has difference = c - b and savings_percentage 0 when
\* c <= 0, otherwise difference / c * 100.
C12_ComparisonNumbers ==
    (Returned("compare_prices") /\ BothSearched) =>
        \A i \in DOMAIN cat.out.comparisons :
            LET k == cat.out.comparisons[i]
            IN  /\ k.b2c_price \in PricesOf(cat.out.b2c[1].items, k.sku)
                /\ k.b2b_price \in PricesOf(cat.out.b2b[1].items, k.sku)
                /\ k.difference = k.b2c_price - k.b2b_price
                /\ k.b2c_price <= 0 => k.savings_percentage.num = 0
                /\ k.b2c_price > 0 =>
                       /\ k.savings_percentage.den > 0
                       /\ k.savings_percentage.num * k.b2c_price
                              = (k.b2c_price - k.b2b_price) * 100 * k.savings_percentage.den

\* A free consumer product against a priced business one, and a full saving.
C12_Witness ==
    /\ Returned("compare_prices")
    /\ Len(cat.out.comparisons) = 2
    /\ cat.out.comparisons[1].b2c_price = 1
    /\ cat.out.comparisons[1].b2b_price = 0
    /\ PctEq(cat.out.comparisons[1].savings_percentage, [num |-> 100, den |-> 1])
    /\ cat.out.comparisons[2].b2c_price = 0
    /\ cat.out.comparisons[2].difference = 0 - 1

\* C18: the compare_prices command answers every non-empty comparison list
\* with the comparison and its summary (products cheaper on the business
\* backend, average and total savings), never with an error message.
C18_NonEmptyComparisonSummarised ==
    (Returned("call_tool_compare_prices") /\ cat.out.compared.ret = "list"
                                          /\ cat.out.compared.comparisons # <<>>) =>
        /\ cat.out.text = "comparison"
        /\ cat.out.summary.cheaper = Len(Cheaper(cat.out.compared.comparisons))


\* C19: no request to the b2c endpoint carries an Authorization header, the
\* login, verify and logout requests go to the b2b endpoint only, and the
\* headers of a b2b query carry the bearer token exactly when one is held.
C19_TokenOnlyToB2b ==
    /\ (pc # "idle" /\ Endpoint(platform) = B2cEndpoint) => headers = NoneVal
    /\ last.posted => last.to = B2bEndpoint
    /\ (pc = "loop" /\ Endpoint(platform) = B2bEndpoint) =>
           /\ headers # NoneVal <=> Truthy(b2b_token)
           /\ headers # NoneVal => headers = b2b_token

\* A consumer query is being retried by a client that holds a token it got
\* by logging in.
C19_Witness ==
    /\ pc = "loop"
    /\ Endpoint(platform) = B2cEndpoint
    /\ gets >= 1
    /\ last.op = "login"
    /\ last.posted
    /\ Truthy(b2b_token)
    /\ headers = NoneVal


\* C21: after the transport failure of attempt k that is not the last one,
\* 2^k seconds are slept before attempt k+1; nothing is slept after the last
\* failed attempt, nor before the retry that follows a re-authentication.
C21_ExponentialBackoff ==
    /\ (lastResp = "fail" /\ pc = "loop") =>
           /\ attempt < retry_attempts
           /\ slept = 2 ^ (attempt - 1)
    /\ (lastResp = "fail" /\ pc = "done") =>
           /\ attempt = retry_attempts - 1
           /\ slept = 0
    /\ lastReauth = "ok" => slept = 0

\* Attempts 0 and 1 have failed: two seconds were slept before attempt 2.
C21_Witness ==
    /\ pc = "loop"
    /\ lastResp = "fail"
    /\ fails = 2
    /\ attempt = 2
    /\ slept = 2


\* C22: every _execute_query call ends, having sent at most retry_attempts
\* GETs (retries after a transport failure and after a re-authentication
\* alike); with retry_attempts = 0 it sends none and returns None.
C22_TerminatesWithinBudget ==
    /\ [](gets <= retry_attempts)
    /\ []((pc = "done" /\ retry_attempts = 0) => (gets = 0 /\ result = NoneVal))
    /\ (pc = "loop") ~> (pc = "done")

\* A call that used all three attempts: one on a re-authentication, one on
\* a transport failure, one that was answered.
C22_Witness ==
    /\ pc = "done"
    /\ retry_attempts = 3
    /\ gets = 3
    /\ authCalls = 1
    /\ fails = 1
    /\ result = 3


\* C23: the authenticator's token and the token of the shared
\* configuration are equal in every state reached by constructing clients,
\* logging in, verifying, logging out, re-authenticating inside a query and
\* injecting a token with set_b2b_token.
C23_TokenCopiesEqual == b2b_token = cfg_token


\* C24: whenever authenticate_b2b returns true the client is authenticated
\* and its business headers carry the bearer token, whatever token the
\* backend issued (null and empty included); the retry after a
\* re-authentication inside a query carries it too.
C24_LoginSuccessAuthenticates ==
    /\ (last.op = "login" /\ last.ret = "True") =>
           /\ is_b2b_authenticated(b2b_token)
           /\ get_b2b_headers(b2b_token) # NoneVal
    /\ (lastReauth = "ok" /\ pc = "loop") => headers # NoneVal

====
